---- MODULE Spec2Model ----
(***************************************************************************)
(* agentic_security/report_chart.py: generate_identifiers, which labels    *)
(* the rows of a data frame "A1" .. "Z26", and plot_security_report, which *)
(* sorts a table by failureRate, labels the rows, draws the polar chart    *)
(* and returns it as a PNG in an in-memory buffer.                         *)
(*                                                                         *)
(* failureRate values are held in tenths of a percent (205 is 20.5), so    *)
(* that fractional rates are integers of the model.  tokens are integers.  *)
(***************************************************************************)
EXTENDS Integers, Sequences, FiniteSets

VARIABLES
    table,        \* argument of plot_security_report
    result,       \* what the last call of plot_security_report gave its caller
    data,         \* the local data frame of that call when it ended
    fig,          \* what that call had put on its figure when it ended
    openFigs,     \* figures registered with pyplot and not closed
    frame,        \* argument of generate_identifiers (called directly)
    identifiers   \* what the last direct call of generate_identifiers gave

vars == <<table, result, data, fig, openFigs, frame, identifiers>>

\* ------------------------------------------------------------------ bounds

\* Most rows of a table handed to plot_security_report.
MaxRows == 3
\* Longest data frame handed to generate_identifiers directly.
MaxLen == 678
\* Calls are followed until this many figures are left open.
MaxOpenFigs == 2

\* ------------------------------------------------------- input value sets

Modules == {"llm"}
\* tenths of a percent: 0, 10.0, 20.5, 50.0, 90.0
FailureRates == {0, 100, 205, 500, 900}
Tokens == {1, 3}
Columns == {"module", "failureRate", "tokens"}
ColumnSets == {Columns, Columns \ {"tokens"}, Columns \ {"failureRate"},
               Columns \ {"module"}}

Rows == [module : Modules, failureRate : FailureRates, tokens : Tokens]

SeqsUpTo(S, n) == UNION {[1..k -> S] : k \in 0..n}

\* A table: whether it is an instance of Table, the columns it has and its
\* rows.  The field of a row for a column the table lacks is never read.
Tables == [isTable : BOOLEAN, cols : ColumnSets, rows : SeqsUpTo(Rows, MaxRows)]

\* A data frame as generate_identifiers reads it: its type and its length.
Frames == [isDataFrame : BOOLEAN, length : 0..MaxLen]

\* ----------------------------------------------------------------- text

Digit == <<"0", "1", "2", "3", "4", "5", "6", "7", "8", "9">>

\* str(n) of a non-negative integer, as an f-string formats it.
RECURSIVE ToDecimal(_)
ToDecimal(n) ==
    IF n < 10 THEN Digit[n + 1]
    ELSE ToDecimal(n \div 10) \o Digit[(n % 10) + 1]

\* ---------------------------------------------------------------- errors

\* An exception on its way to the caller: its type, the exception it wraps
\* ("none": it wraps nothing) and the line that raised it.
Exception(type, line) ==
    [kind |-> "error", type |-> type, cause |-> "none", line |-> line]

\* The KeyError of data[column] for a column the frame lacks: pandas raises it
\* from the KeyError of its index engine (raise KeyError(key) from err), which
\* stays its __cause__ through every bare raise.
MissingColumn(line) ==
    [kind |-> "error", type |-> "KeyError", cause |-> "KeyError", line |-> line]

\* ------------------------------------------------- generate_identifiers

alphabet == <<"A", "B", "C", "D", "E", "F", "G", "H", "I", "J", "K", "L", "M",
              "N", "O", "P", "Q", "R", "S", "T", "U", "V", "W", "X", "Y", "Z">>
num_letters == Len(alphabet)
max_identifiers == num_letters * num_letters

\* identifier with the number taken as i % num_letters, without the + 1.
identifier_number_from_zero(i) ==
    alphabet[(i \div num_letters) + 1] \o ToDecimal(i % num_letters)

\* The identifier of the row at 0-based index i (the body of the loop).
identifier(i) ==
    LET letter_index == i \div num_letters
        number == (i % num_letters) + 1
    IN  alphabet[letter_index + 1] \o ToDecimal(number)

\* except (TypeError, ValueError, OverflowError, IndexError): log and re-raise.
generate_identifiers_except(e) == e

\* generate_identifiers without the check of data_length against
\* max_identifiers: only the loop's own check is left.
generate_identifiers_no_capacity_check(isDataFrame, data_length) ==
    IF ~isDataFrame
    THEN generate_identifiers_except(Exception("TypeError", 161))
    ELSE IF data_length = 0
    THEN generate_identifiers_except(Exception("ValueError", 165))
    ELSE IF \E i \in 0..(data_length - 1) : i \div num_letters >= num_letters
    THEN generate_identifiers_except(Exception("IndexError", 180))
    ELSE [kind |-> "ok",
          identifiers |-> [k \in 1..data_length |-> identifier(k - 1)]]

generate_identifiers(isDataFrame, data_length) ==
    IF ~isDataFrame
    THEN generate_identifiers_except(Exception("TypeError", 161))
    ELSE IF data_length = 0
    THEN generate_identifiers_except(Exception("ValueError", 165))
    ELSE IF data_length > max_identifiers
    THEN generate_identifiers_except(Exception("OverflowError", 172))
    ELSE IF \E i \in 0..(data_length - 1) : i \div num_letters >= num_letters
    THEN generate_identifiers_except(Exception("IndexError", 180))
    ELSE [kind |-> "ok",
          identifiers |-> [k \in 1..data_length |-> identifier(k - 1)]]

\* ------------------------------------------------------------ the sort

Permutations(n) ==
    {p \in [1..n -> 1..n] : \A i, j \in 1..n : i # j => p[i] # p[j]}

\* sort_values with ascending left at its default, True.
sort_values_ascending(rows) ==
    {p \in Permutations(Len(rows)) :
        \A k \in 1..(Len(rows) - 1) :
            rows[p[k]].failureRate <= rows[p[k + 1]].failureRate}

\* data.sort_values("failureRate", ascending=False): the orders it may give
\* the rows, each as the original position of the row at every sorted
\* position.  kind is left at its default, "quicksort", which pandas and
\* numpy document as not stable: rows of equal failureRate come out in an
\* order the build and the input length decide.
sort_values(rows) ==
    {p \in Permutations(Len(rows)) :
        \A k \in 1..(Len(rows) - 1) :
            rows[p[k]].failureRate >= rows[p[k + 1]].failureRate}

\* ------------------------------------------------------------ the chart

Min(S) == CHOOSE x \in S : \A y \in S : x <= y
Max(S) == CHOOSE x \in S : \A y \in S : x >= y

Column(d, c) == {d[k][c] : k \in 1..Len(d)}

\* Normalize(vmin, vmax)(t), as a fraction: matplotlib gives 0 for every
\* value when vmin = vmax, and (t - vmin) / (vmax - vmin) otherwise.
Normalize(vmin, vmax, t) ==
    IF vmin = vmax THEN [num |-> 0, den |-> 1]
    ELSE [num |-> t - vmin, den |-> vmax - vmin]

\* norm with vmin fixed at 0 instead of the smallest tokens value.
norm_from_zero(d, t) == Normalize(0, Max(Column(d, "tokens")), t)

\* norm = Normalize(vmin=data["tokens"].min(), vmax=data["tokens"].max()),
\* applied to t.
norm(d, t) == Normalize(Min(Column(d, "tokens")), Max(Column(d, "tokens")), t)

\* cmap(x) of the 256-entry colormap: the entry int(x * 256), the last entry
\* for x = 1; an undefined x (0/0) takes the colormap's "bad" entry.
cmap(x) ==
    IF x.den = 0 THEN "bad"
    ELSE IF x.num = x.den THEN 255
    ELSE (x.num * 256) \div x.den

\* max(data["failureRate"]), in tenths.
max_failureRate(d) == Max(Column(d, "failureRate"))

\* np.arange(0, max(data["failureRate"]), 20): 0, 20, .. below the maximum.
yticks(d) ==
    LET n == (max_failureRate(d) + 199) \div 200
    IN  [k \in 1..n |-> (k - 1) * 20]

\* [f"{x}%" for x in range(0, int(max(data["failureRate"])), 20)]
yticklabels(d) ==
    LET n == ((max_failureRate(d) \div 10) + 19) \div 20
    IN  [k \in 1..n |-> ToDecimal((k - 1) * 20) \o "%"]

\* f"{fr:.1f}" of a rate held in tenths.
OneDecimal(fr) == ToDecimal(fr \div 10) \o "." \o Digit[(fr % 10) + 1]

\* np.linspace(0, 2 * np.pi, n, endpoint=False), as fractions of a turn.
linspace(n) == [k \in 1..n |-> [num |-> k - 1, den |-> n]]

\* --------------------------------------------------------- the buffer

BytesIO == [bytes |-> <<>>, pos |-> 0]
write(buf, bytes) ==
    [bytes |-> buf.bytes \o bytes, pos |-> buf.pos + Len(bytes)]
\* seek that leaves the position where the write left it.
seek_nowhere(buf, pos) == buf
seek(buf, pos) == [buf EXCEPT !.pos = pos]

\* plt.savefig(buf, format="png", ...): the PNG stream, chunk by chunk, one
\* image data chunk for the axes and one for each bar drawn.
savefig(buf, f) ==
    write(buf, <<"signature", "IHDR", "IDAT">>
               \o [k \in 1..Len(f.colors) |-> "IDAT"] \o <<"IEND">>)

\* ------------------------------------------------- plot_security_report

NoFig == [created |-> FALSE]

\* fig, ax = plt.subplots(...): a new figure, registered with pyplot.
subplots ==
    [created |-> TRUE, closed |-> FALSE, angles |-> <<>>, norms |-> <<>>,
     colors |-> <<>>, heights |-> <<>>, xticklabels |-> <<>>,
     yticks |-> <<>>, yticklabels |-> <<>>, annotations |-> <<>>,
     table_data |-> <<>>]

\* plt.close(fig)
close(f) == [f EXCEPT !.closed = TRUE]

\* The handler logging e and returning an empty buffer instead of raising.
plot_security_report_except_swallows(e) == [kind |-> "ok", buf |-> BytesIO]
\* except Exception as e: log the error and re-raise it.
plot_security_report_except(e) == e

\* How a call ends: what the caller gets, and the local data frame and the
\* figure as the call leaves them.
Raised(e, d, f) ==
    [result |-> plot_security_report_except(e), data |-> d, fig |-> f]

\* Lines 32 to 151: the figure of the sorted and labelled data frame d.
render(cols, d) ==
    LET n == Len(d)
        fig0 == subplots
    IN
    IF "tokens" \notin cols
    THEN Raised(MissingColumn(40), d, fig0)
    ELSE IF n = 0
    THEN Raised(Exception("ValueError", 58), d, fig0)
    ELSE
    LET norms == [k \in 1..n |-> norm(d, d[k].tokens)]
        bars == [fig0 EXCEPT
                    !.angles = linspace(n),
                    !.norms = norms,
                    !.colors = [k \in 1..n |-> cmap(norms[k])],
                    !.heights = [k \in 1..n |-> d[k].failureRate],
                    !.xticklabels = [k \in 1..n |-> d[k].identifier],
                    !.yticks = yticks(d)]
        labels == yticklabels(d)
    IN
    \* set_yticklabels: matplotlib refuses labels that are neither as many
    \* as the fixed ticks nor none at all.
    IF Len(labels) # Len(bars.yticks) /\ Len(labels) # 0
    THEN Raised(Exception("ValueError", 67), d, bars)
    ELSE
    LET grid == [bars EXCEPT
                    !.yticklabels = labels,
                    !.annotations =
                        [k \in 1..n |-> d[k].identifier \o ": "
                            \o OneDecimal(d[k].failureRate) \o "%"]]
    IN
    IF "module" \notin cols
    THEN Raised(MissingColumn(127), d, grid)
    ELSE
    LET full == [grid EXCEPT
                    !.table_data = <<"Threat">> \o
                        [k \in 1..n |-> d[k].identifier \o ": " \o d[k].module
                            \o " (" \o OneDecimal(d[k].failureRate) \o "%)"]]
        buf == savefig(BytesIO, full)
    IN  [result |-> [kind |-> "ok", buf |-> seek(buf, 0)],
         data |-> d,
         fig |-> close(full)]

\* Lines 28 and 29 for the order p the sort gave, then the rest.
plot_sorted(t, p) ==
    LET n == Len(t.rows)
        ids == generate_identifiers(TRUE, n)
    IN
    IF ids.kind = "error"
    THEN Raised(ids, <<>>, NoFig)
    ELSE render(t.cols,
                [k \in 1..n |->
                    [module |-> t.rows[p[k]].module,
                     failureRate |-> t.rows[p[k]].failureRate,
                     tokens |-> t.rows[p[k]].tokens,
                     identifier |-> ids.identifiers[k],
                     origin |-> p[k]]])

\* Every way a call can end.
plot_security_report(t) ==
    IF ~t.isTable
    THEN {Raised(Exception("TypeError", 22), <<>>, NoFig)}
    ELSE IF "failureRate" \notin t.cols
    THEN {Raised(Exception("KeyError", 28), <<>>, NoFig)}
    ELSE {plot_sorted(t, p) : p \in sort_values(t.rows)}

\* ----------------------------------------------------------------- state

NotCalled == [kind |-> "none"]
NoTable == [isTable |-> FALSE, cols |-> Columns, rows |-> <<>>]
NoFrame == [isDataFrame |-> FALSE, length |-> 0]

\* A call of plot_security_report on the table.
PlotSecurityReport ==
    /\ openFigs < MaxOpenFigs
    /\ \E out \in plot_security_report(table) :
        /\ result' = out.result
        /\ data' = out.data
        /\ fig' = out.fig
        /\ openFigs' = openFigs
              + (IF out.fig.created /\ ~out.fig.closed THEN 1 ELSE 0)
    /\ UNCHANGED <<table, frame, identifiers>>

\* A direct call of generate_identifiers on the frame.
GenerateIdentifiers ==
    /\ identifiers' = generate_identifiers(frame.isDataFrame, frame.length)
    /\ UNCHANGED <<table, result, data, fig, openFigs, frame>>

Init ==
    /\ table \in Tables
    /\ result = NotCalled
    /\ data = <<>>
    /\ fig = NoFig
    /\ openFigs = 0
    /\ frame = NoFrame
    /\ identifiers = NotCalled

Next == PlotSecurityReport

Spec == Init /\ [][Next]_vars

InitGen ==
    /\ frame \in Frames
    /\ identifiers = NotCalled
    /\ table = NoTable
    /\ result = NotCalled
    /\ data = <<>>
    /\ fig = NoFig
    /\ openFigs = 0

NextGen == GenerateIdentifiers

SpecGen == InitGen /\ [][NextGen]_vars

\* ---------------------------------------------------------------- claims

Called == identifiers # NotCalled
Ended == result # NotCalled
Failed == Ended /\ result.kind = "error"
Returned == Ended /\ result.kind = "ok"
HasBuffer == "buf" \in DOMAIN result

\* C1: for a data frame of N rows, 1 <= N <= 676, generate_identifiers returns
\* exactly N pairwise different strings; the one at 0-based index i is the
\* letter alphabet[i // 26] followed by the decimal number (i % 26) + 1, so
\* index 0 is "A1", index 26 is "B1" and index 675 is "Z26".
C1_IdentifiersOfEveryLength ==
    (Called /\ frame.isDataFrame /\ frame.length \in 1..676) =>
        /\ identifiers.kind = "ok"
        /\ LET ids == identifiers.identifiers
               N == frame.length
           IN  /\ DOMAIN ids = 1..N
               /\ Cardinality({ids[k] : k \in 1..N}) = N
               /\ \A i \in 0..(N - 1) :
                    \E l \in 1..26, m \in 1..26 :
                        /\ l = (i \div 26) + 1
                        /\ m = (i % 26) + 1
                        /\ ids[i + 1] = alphabet[l] \o ToDecimal(m)
               /\ ids[1] = "A1"
               /\ N > 26 => ids[27] = "B1"
               /\ N > 675 => ids[676] = "Z26"

C1_Witness ==
    /\ Called /\ frame.isDataFrame /\ frame.length = 676
    /\ identifiers.kind = "ok"
    /\ identifiers.identifiers[676] = "Z26"

\* C2: generate_identifiers returns identifiers only for 1 <= N <= 676: a data
\* frame of 0 rows fails with ValueError (EmptyInput), one of more than 676
\* rows with OverflowError (CapacityExceeded), and a failed call returns no
\* identifier list.
C2_LengthOutOfRangeFails ==
    (Called /\ frame.isDataFrame) =>
        /\ frame.length = 0 =>
             identifiers.kind = "error" /\ identifiers.type = "ValueError"
        /\ frame.length > 676 =>
             identifiers.kind = "error" /\ identifiers.type = "OverflowError"
        /\ identifiers.kind = "ok" => frame.length \in 1..676
        /\ identifiers.kind = "error" =>
             "identifiers" \notin DOMAIN identifiers

C2_Witness ==
    /\ Called /\ frame.isDataFrame /\ frame.length = 677
    /\ identifiers.kind = "error" /\ identifiers.type = "OverflowError"

\* C3: identifiers go by position in the order of descending failureRate: the
\* row with the k-th identifier has a failureRate at least that of the row
\* with the (k+1)-th, and the row with the highest failureRate gets "A1".
C3_IdentifiersFollowDescendingRate ==
    (Ended /\ data # <<>>) =>
        /\ Len(data) = Len(table.rows)
        /\ \A k \in 1..Len(data) :
            /\ data[k].identifier =
                 alphabet[((k - 1) \div 26) + 1] \o ToDecimal(((k - 1) % 26) + 1)
            /\ data[k].failureRate = table.rows[data[k].origin].failureRate
        /\ \A k, l \in 1..Len(data) : k # l => data[k].origin # data[l].origin
        /\ \A k \in 1..(Len(data) - 1) :
            data[k].failureRate >= data[k + 1].failureRate
        /\ data[1].identifier = "A1"
        /\ \A k \in 1..Len(table.rows) :
            data[1].failureRate >= table.rows[k].failureRate

C3_Witness ==
    /\ Returned
    /\ Len(table.rows) = 3
    /\ table.rows[1].failureRate = 100
    /\ table.rows[2].failureRate = 900
    /\ table.rows[3].failureRate = 500
    /\ data[1].identifier = "A1" /\ data[1].failureRate = 900
    /\ data[2].identifier = "A2" /\ data[2].failureRate = 500
    /\ data[3].identifier = "A3" /\ data[3].failureRate = 100

\* C4: the sort is stable: of two rows of equal failureRate, the one earlier
\* in the table comes earlier in the sorted data and gets the earlier
\* identifier.
C4_SortIsStable ==
    (Ended /\ data # <<>>) =>
        \A k, l \in 1..Len(data) :
            (k < l /\ data[k].failureRate = data[l].failureRate) =>
                data[k].origin < data[l].origin

\* C5: a failure after the input validation (a missing tokens column, say)
\* reaches the caller as a RenderError that carries the original cause, and
\* no buffer, partial or complete, is returned.
C5_FailureIsRenderError ==
    (Failed /\ result.line > 22) =>
        /\ result.type = "RenderError"
        /\ result.cause # "none"
        /\ ~HasBuffer

\* C6: every figure plot_security_report creates is closed before the call
\* ends, on success and on failure: no figure of an earlier call stays open.
C6_NoFigureLeftOpen ==
    /\ openFigs = 0
    /\ (Ended /\ fig.created) => fig.closed

\* C7: a table of zero rows makes plot_security_report fail with an error and
\* return no buffer; it never gives a blank image.
C7_EmptyTableFails ==
    (Ended /\ table.rows = <<>>) => (Failed /\ ~HasBuffer /\ ~fig.created)

C7_Witness ==
    /\ Failed /\ table.isTable /\ table.cols = Columns /\ table.rows = <<>>
    /\ result.type = "ValueError"

\* C8: when plot_security_report returns, the buffer holds the encoded image
\* (it is not empty) and its stream position is 0.
C8_BufferFilledAndRewound ==
    Returned =>
        /\ HasBuffer
        /\ Len(result.buf.bytes) > 0
        /\ result.buf.pos = 0

C8_Witness ==
    /\ Returned /\ Len(table.rows) = 2
    /\ Len(result.buf.bytes) > 0 /\ result.buf.pos = 0

\* C9: when every row has the same tokens value the normalization divides by
\* nothing that is zero, the colour step does not fail and every bar gets the
\* same colour; when the smallest tokens value is below the largest, the rows
\* of the smallest normalize to 0 and those of the largest to 1.
C9_ColourMapping ==
    (Ended /\ fig.created /\ "tokens" \in table.cols) =>
        LET n == Len(data)
            toks == {data[k].tokens : k \in 1..n}
        IN  /\ ~(Failed /\ result.line \in 38..53)
            /\ Len(fig.colors) = n /\ Len(fig.norms) = n
            /\ \A k \in 1..n : fig.norms[k].den > 0
            /\ Cardinality(toks) = 1 =>
                 \A k, l \in 1..n : fig.colors[k] = fig.colors[l]
            /\ Cardinality(toks) > 1 =>
                 \A k \in 1..n :
                    /\ (\A l \in 1..n : data[k].tokens <= data[l].tokens) =>
                         fig.norms[k].num = 0
                    /\ (\A l \in 1..n : data[k].tokens >= data[l].tokens) =>
                         fig.norms[k].num = fig.norms[k].den

C9_Witness ==
    /\ Returned /\ Len(data) = 3
    /\ \A k \in 1..3 : data[k].tokens = 3
    /\ \A k \in 1..3 : fig.colors[k] = fig.colors[1]

\* C10: for every non-empty table of numeric failureRate values, whole or
\* fractional, the gridline radii set (multiples of 20 below the largest
\* failureRate) and the "%" labels set are as many and correspond one to one,
\* and the grid step does not make the call fail.
C10_GridLabelsMatchTicks ==
    (Ended /\ fig.created /\ fig.heights # <<>>) =>
        /\ ~(Failed /\ result.line \in 64..69)
        /\ Len(fig.yticklabels) = Len(fig.yticks)
        /\ \A k \in 1..Len(fig.yticks) :
            fig.yticklabels[k] = ToDecimal(fig.yticks[k]) \o "%"

====
